---- MODULE Spec2Model ----
(***************************************************************************)
(* The financial projection engine of distillery_model/core/model.py:      *)
(* DistilleryModel.__init__ and run_model with its six ledger stages and   *)
(* the cap table.  Numbers are exact rationals <<n, d>> in lowest terms    *)
(* with d > 0; <<0, 0>> is NaN (the value pandas puts in the cells of a    *)
(* row added by enlargement).  An exception raised by the Python code      *)
(* ends the run in pc = "raised" with the exception's type in exc.         *)
(* SpecPair runs two instances with their steps interleaved.  The helpers  *)
(* of streamlit_app/utils have specifications of their own: SpecBoundary   *)
(* (error_boundary), SpecDebounce (debounce) and SpecMemo                  *)
(* (memoize_expensive_operation).                                          *)
(***************************************************************************)
EXTENDS Integers, Sequences, FiniteSets, TLC

VARIABLES
    scenario,             \* self.scenario
    const,                \* self.const
    months,               \* self.months
    df,                   \* self.df: [index: Seq(Int), col: name -> (label -> value)]
    pc,                   \* position in __init__ / run_model
    exc,                  \* type of the exception that ended the run, or "none"
    m,                    \* loop variable of the cash/revolver loop
    cash,                 \* cash[0..months]
    revolver,             \* revolver[0..months]
    interest_paid,        \* interest_paid[0..months-1]
    revolver_draw_repay,  \* revolver_draw_repay[0..months-1]
    cbf,                  \* cbf[k]: cash_before_financing in iteration k of the loop
    results,              \* the dict run_model returns, or the string "none"
    log,                  \* the column assignments and reads of the run so far
    peer,                 \* a second DistilleryModel instance, suspended
    alone,                \* what the instances were given and returned when run alone
    boundary,             \* a function decorated with error_boundary and its calls
    debouncer,            \* a function wrapped by debounce, its timers and the clock
    memo                  \* a function wrapped by memoize_expensive_operation

vars == <<scenario, const, months, df, pc, exc, m, cash, revolver,
          interest_paid, revolver_draw_repay, cbf, results, log,
          peer, alone, boundary, debouncer, memo>>

\* what the engine's steps leave alone
others == <<peer, alone, boundary, debouncer, memo>>

-----------------------------------------------------------------------------
(* Arithmetic of Python / numpy numbers, as exact rationals.               *)

Abs(x) == IF x < 0 THEN -x ELSE x

RECURSIVE GCD(_, _)
GCD(a, b) == IF b = 0 THEN a ELSE GCD(b, a % b)

NaN == <<0, 0>>

IsNaN(a) == a[2] = 0

Norm(n, d) ==
    IF d = 0 THEN NaN
    ELSE LET g == GCD(Abs(n), Abs(d))
             s == IF d < 0 THEN -1 ELSE 1
         IN  <<(s * n) \div g, (s * d) \div g>>

I(n) == <<n, 1>>

Q(n, d) == Norm(n, d)

Zero == I(0)

One == I(1)

IsZero(a) == a[2] # 0 /\ a[1] = 0

Neg(a) == <<-a[1], a[2]>>

Add(a, b) ==
    IF IsNaN(a) \/ IsNaN(b) THEN NaN
    ELSE LET g == GCD(a[2], b[2])
         IN  Norm(a[1] * (b[2] \div g) + b[1] * (a[2] \div g), (a[2] \div g) * b[2])

Sub(a, b) == Add(a, Neg(b))

Mul(a, b) ==
    IF IsNaN(a) \/ IsNaN(b) THEN NaN
    ELSE LET g1 == GCD(Abs(a[1]), b[2])
             g2 == GCD(Abs(b[1]), a[2])
         IN  Norm((a[1] \div g1) * (b[1] \div g2), (a[2] \div g2) * (b[2] \div g1))

\* a / b for b # 0; the callers model what a zero divisor does.
Div(a, b) ==
    IF IsNaN(a) \/ IsNaN(b) THEN NaN
    ELSE Mul(a, IF b[1] < 0 THEN <<-b[2], -b[1]>> ELSE <<b[2], b[1]>>)

\* Comparisons with NaN are False, as in IEEE arithmetic.
Lt(a, b) == ~IsNaN(a) /\ ~IsNaN(b) /\ a[1] * b[2] < b[1] * a[2]

Le(a, b) == ~IsNaN(a) /\ ~IsNaN(b) /\ a[1] * b[2] <= b[1] * a[2]

Gt(a, b) == Lt(b, a)

Ge(a, b) == Le(b, a)

\* Python's builtin min(a, b): b if b < a else a.
Min(a, b) == IF Lt(b, a) THEN b ELSE a

RECURSIVE Pow(_, _)
Pow(a, k) == IF k <= 0 THEN One ELSE Mul(a, Pow(a, k - 1))

FloorDivPlusOne(i, k) == i \div k + 1

\* np.ceil(i / 12) for an integer label i >= 0
CeilDiv(i, k) == (i + k - 1) \div k

RECURSIVE SumSeq(_)
SumSeq(s) == IF s = <<>> THEN Zero ELSE Add(Head(s), SumSeq(Tail(s)))

-----------------------------------------------------------------------------
(* The DataFrame self.df.                                                  *)

EmptyCols == [c \in {} |-> Zero]

Labels(d) == {d.index[i] : i \in 1..Len(d.index)}

HasCol(d, name) == name \in DOMAIN d.col

\* self.df[name] = <a value per row>
SetCol(d, name, f) ==
    [d EXCEPT !.col = (name :> [l \in Labels(d) |-> f[l]]) @@ d.col]

\* self.df.loc[label, name] = v for a label of the index; a column that does
\* not exist yet is created with NaN in its other cells.
SetCell(d, label, name, v) ==
    LET old == IF HasCol(d, name) THEN d.col[name] ELSE [l \in Labels(d) |-> NaN]
    IN  [d EXCEPT !.col = (name :> [old EXCEPT ![label] = v]) @@ d.col]

\* self.df.loc[label, name] = v for a label that is not in the index: pandas
\* enlarges the frame by a row, NaN in every other column.
Enlarge(d, label, name, v) ==
    [index |-> Append(d.index, label),
     col   |-> [c \in DOMAIN d.col |->
                  [l \in Labels(d) \cup {label} |->
                     IF l = label THEN (IF c = name THEN v ELSE NaN)
                     ELSE d.col[c][l]]]]

-----------------------------------------------------------------------------
(* The column assignments and column reads of the stages, statement by     *)
(* statement: log.w[c] lists the assignments to column c (the stage and    *)
(* the rows assigned), log.r the reads (the stage, the column and the      *)
(* stages that had assigned the column when it was read).                  *)

\* the order of the calls of lines 37-44
StageOrder ==
    [schedule |-> 1, volume |-> 2, cogs |-> 3, opex |-> 4, capex |-> 5, pnl |-> 6]

EmptyLog == [w |-> [c \in {} |-> <<>>], r |-> {}]

Wr(name, rows) == [op |-> "w", col |-> name, rows |-> rows]

Rd(name) == [op |-> "r", col |-> name, rows |-> {}]

LogEvent(lg, stage, e) ==
    LET before == IF e.col \in DOMAIN lg.w THEN lg.w[e.col] ELSE <<>>
    IN  IF e.op = "w"
        THEN [lg EXCEPT !.w = (e.col :> Append(before, [stage |-> stage, rows |-> e.rows]))
                                @@ lg.w]
        ELSE [lg EXCEPT !.r = @ \cup {[stage |-> stage, col |-> e.col,
                                       writers |-> {before[i].stage : i \in 1..Len(before)}]}]

RECURSIVE Record(_, _, _)
Record(lg, stage, events) ==
    IF events = <<>> THEN lg
    ELSE Record(LogEvent(lg, stage, Head(events)), stage, Tail(events))

\* lines 61-63; d is the frame after line 62
ScheduleEvents(d) ==
    <<Wr("Year", Labels(d)), Wr("Month of Year", Labels(d)), Rd("Month of Year"),
      Wr("Month of Year", {l \in Labels(d) : d.col["Month of Year"][l] = 0})>>

\* lines 77-92
VolumeEvents(L) ==
    <<Rd("Year"), Wr("Annual Volume", L),
      Rd("Annual Volume"), Wr("Monthly Volume", L),
      Rd("Year"), Wr("tasting_room_price", L),
      Rd("Year"), Wr("club_price", L),
      Rd("Year"), Wr("wholesale_fob_price", L),
      Rd("Monthly Volume"), Rd("tasting_room_price"), Wr("tasting_room_revenue", L),
      Rd("Monthly Volume"), Rd("club_price"), Wr("club_revenue", L),
      Rd("Monthly Volume"), Rd("wholesale_fob_price"), Wr("wholesale_revenue", L),
      Rd("tasting_room_revenue"), Rd("club_revenue"), Rd("wholesale_revenue"),
      Wr("Revenue", L)>>

\* line 97
CogsEvents(L) == <<Rd("Monthly Volume"), Wr("COGS", L)>>

\* lines 109-121
OpexEvents(L) ==
    <<Rd("Year"), Wr("Payroll", L), Rd("Year"), Wr("Rent", L),
      Rd("Year"), Wr("Utilities & Insurance", L),
      Rd("Revenue"), Wr("Marketing", L), Rd("Revenue"), Wr("G&A", L),
      Rd("Payroll"), Rd("Rent"), Rd("Utilities & Insurance"), Rd("Marketing"),
      Rd("G&A"), Wr("OpEx", L)>>

\* lines 128-129
CapexEvents(L, capex_month) == <<Wr("CapEx", L), Wr("CapEx", {capex_month})>>

\* lines 134-135
DepreciationEvents(L, capex_month) ==
    <<Wr("Depreciation", L), Wr("Depreciation", {l \in L : l >= capex_month})>>

\* lines 140-142
PnlEvents(L) ==
    <<Rd("Revenue"), Rd("COGS"), Wr("Gross Profit", L),
      Rd("Gross Profit"), Rd("OpEx"), Wr("EBITDA", L),
      Rd("EBITDA"), Rd("Depreciation"), Wr("EBIT", L)>>

LoopEventsUpdatingEbit(month) ==
    <<Rd("EBIT"), Wr("EBIT", {month}), Wr("Interest", {month}), Wr("EBT", {month}),
      Wr("Taxes", {month}), Wr("Net Income", {month}), Rd("Depreciation"), Rd("CapEx")>>

\* lines 156-171, iteration month of the loop
LoopEvents(month) ==
    <<Rd("EBIT"), Wr("Interest", {month}), Wr("EBT", {month}), Wr("Taxes", {month}),
      Wr("Net Income", {month}), Rd("Depreciation"), Rd("CapEx")>>

\* lines 187-200
StoreEvents(L) ==
    <<Wr("Beginning Cash", L), Wr("Ending Cash", L), Wr("Revolver Balance", L),
      Wr("Revolver Draw/(Repay)", L),
      Rd("Net Income"), Rd("Depreciation"), Wr("CFO", L),
      Rd("CapEx"), Wr("CFI", L),
      Rd("Revolver Draw/(Repay)"), Wr("CFF", L),
      Rd("CFO"), Rd("CFI"), Wr("FCF", L),
      Rd("FCF"), Rd("CFF"), Wr("Net Cash Flow", L),
      Rd("Net Cash Flow"), Rd("Ending Cash"), Wr("Runway (Months)", L)>>

-----------------------------------------------------------------------------
(* Inputs: the scenario and constants records of assumptions.yaml.         *)

MaxMonths == 4

LastVolumeYear == 5

BaseScenario ==
    [name      |-> "Base Case",
     volume    |-> [y1_bottle_target |-> Zero, y2_growth_pct |-> Zero,
                    y3_onwards_growth_pct |-> Zero],
     pricing   |-> [tasting_room_per_bottle |-> Zero, club_per_bottle |-> Zero,
                    wholesale_fob_per_bottle |-> Zero,
                    annual_price_increase_pct |-> Zero],
     channel_mix |-> [tasting_room_pct |-> One, club_pct |-> Zero,
                      wholesale_pct |-> Zero],
     cogs_per_bottle |-> <<Zero>>,
     opex      |-> [marketing_pct_of_revenue |-> Zero,
                    g_and_a_pct_of_revenue |-> Zero],
     capex     |-> [initial_spend_overrun_pct |-> Zero],
     financing |-> [series_a_pre_money_valuation |-> I(30000000),
                    safe_valuation_cap |-> I(15000000),
                    safe_discount |-> Q(1, 5)]]

BaseConst ==
    [general   |-> [forecast_months |-> 1],
     headcount_plan |-> <<>>,
     opex      |-> [payroll_benefits_tax_pct |-> Zero,
                    payroll_annual_growth_pct |-> Zero,
                    rent_annual_escalator_pct |-> Zero, rent_y1 |-> Zero,
                    utilities_insurance_growth_pct |-> Zero,
                    utilities_insurance_y1 |-> Zero],
     capex     |-> [initial_spend_month |-> 1, initial_spend_base |-> Zero,
                    equipment_depreciation_years |-> I(5)],
     financing |-> [initial_cash_position |-> Zero,
                    safe_round_investment |-> Zero,
                    revolver_interest_rate |-> Zero, revolver_limit |-> Zero,
                    founder_shares |-> I(8000000),
                    early_investor_shares |-> I(2000000),
                    series_a_investment |-> I(6000000)],
     tax       |-> [federal_income_tax_rate |-> Zero,
                    oregon_state_income_tax_rate |-> Zero]]

\* Short horizons with a CapEx of 8 and every combination of opening cash,
\* SAFE proceeds, revolver terms, sales and tax.
CashRuns ==
    {<<[BaseScenario EXCEPT !.volume.y1_bottle_target = vol,
                            !.pricing.tasting_room_per_bottle = I(3)],
       [BaseConst EXCEPT !.general.forecast_months = n,
                         !.capex.initial_spend_month = cm,
                         !.capex.initial_spend_base = cx,
                         !.capex.equipment_depreciation_years = I(1),
                         !.financing.initial_cash_position = ic,
                         !.financing.safe_round_investment = sr,
                         !.financing.revolver_interest_rate = ir,
                         !.financing.revolver_limit = rl,
                         !.tax.federal_income_tax_rate = tx,
                         !.tax.oregon_state_income_tax_rate = tx]>> :
        vol \in {Zero, I(12)}, n \in 1..MaxMonths, cm \in {1, 2},
        cx \in {I(8)}, ic \in {Zero, I(3)}, sr \in {Zero, One},
        ir \in {Zero, Q(6, 5)}, rl \in {I(-1), Zero, I(2), I(5)},
        tx \in {Zero, Q(1, 4)}}

\* Horizons up to and past the last year of the annual-volume list, with
\* growing volume and a CapEx depreciated over one year.
Horizons == {12, 13, 25, 12 * LastVolumeYear, 12 * LastVolumeYear + 1}

HorizonRuns ==
    {<<[BaseScenario EXCEPT !.volume.y1_bottle_target = I(50000),
                            !.volume.y2_growth_pct = g2,
                            !.volume.y3_onwards_growth_pct = g3],
       [BaseConst EXCEPT !.general.forecast_months = n,
                         !.capex.initial_spend_month = cm,
                         !.capex.initial_spend_base = I(120),
                         !.capex.equipment_depreciation_years = I(1)]>> :
        n \in Horizons, g2 \in {Zero, Q(1, 4)}, g3 \in {Zero, Q(1, 2)},
        cm \in {1, 13}}

\* A large CapEx in month 1 followed by months of positive cash flow.
RecoveryRuns ==
    {<<[BaseScenario EXCEPT !.volume.y1_bottle_target = I(12),
                            !.pricing.tasting_room_per_bottle = I(10)],
       [BaseConst EXCEPT !.general.forecast_months = n,
                         !.capex.initial_spend_base = I(100),
                         !.financing.revolver_limit = rl]>> :
        n \in {7, 8}, rl \in {Zero, I(20)}}

\* The worked examples: a shortfall of 50,000 against 30,000 of headroom.
ShortfallExample ==
    <<BaseScenario,
      [BaseConst EXCEPT !.capex.initial_spend_base = I(150000),
                        !.financing.initial_cash_position = I(100000),
                        !.financing.revolver_limit = I(30000)]>>

\* SAFE 3,000,000 at a cap of 15,000,000 and a 20% discount, 10,000,000
\* pre-money shares, Series A at 30,000,000 pre-money.
SafeExample ==
    <<BaseScenario,
      [BaseConst EXCEPT !.financing.safe_round_investment = I(3000000)]>>

\* Year-1 target 50,000 bottles, 25% growth in year 2, 13 months.
VolumeExample ==
    <<[BaseScenario EXCEPT !.volume.y1_bottle_target = I(50000),
                           !.volume.y2_growth_pct = Q(1, 4)],
      [BaseConst EXCEPT !.general.forecast_months = 13]>>

ExampleRuns == {ShortfallExample, SafeExample, VolumeExample}

\* Financing terms, valid and not.
FinancingRuns ==
    {<<[BaseScenario EXCEPT !.financing.series_a_pre_money_valuation = val,
                            !.financing.safe_valuation_cap = cap,
                            !.financing.safe_discount = disc],
       [BaseConst EXCEPT !.financing.founder_shares = fs,
                         !.financing.early_investor_shares = es,
                         !.financing.safe_round_investment = sr,
                         !.financing.series_a_investment = sa]>> :
        val \in {Zero, I(30), I(60)}, cap \in {Zero, I(15), I(60)},
        disc \in {Zero, Q(1, 5), One}, fs \in {I(-10), Zero, I(10)},
        es \in {Zero, I(10)}, sr \in {Zero, I(3)}, sa \in {Zero, I(6)}}

\* Channel mix, depreciation life and CapEx month, in and out of range.
RangeRuns ==
    {<<[BaseScenario EXCEPT !.volume.y1_bottle_target = I(12),
                            !.pricing.tasting_room_per_bottle = I(3),
                            !.channel_mix.tasting_room_pct = mix],
       [BaseConst EXCEPT !.general.forecast_months = n,
                         !.capex.initial_spend_month = cm,
                         !.capex.initial_spend_base = I(8),
                         !.capex.equipment_depreciation_years = yrs]>> :
        mix \in {Q(-1, 2), One, Q(3, 2)}, n \in {1, 2}, cm \in {-1, 0, 1, 3},
        yrs \in {I(-1), Zero, One}}

\* A first year of losses (rent above sales) and a taxed second year of
\* doubled sales.
TaxRuns ==
    {<<[BaseScenario EXCEPT !.volume.y1_bottle_target = I(12),
                            !.volume.y2_growth_pct = One,
                            !.pricing.tasting_room_per_bottle = I(3)],
       [BaseConst EXCEPT !.general.forecast_months = 13,
                         !.opex.rent_y1 = I(48),
                         !.financing.revolver_limit = rl,
                         !.tax.federal_income_tax_rate = tx,
                         !.tax.oregon_state_income_tax_rate = Q(1, 10)]>> :
        rl \in {Zero, I(60)}, tx \in {Zero, Q(1, 5)}}

\* Three channels with an escalator and a mix that sums to 1 or to 3/2, a
\* headcount plan, every OpEx component, and a CapEx with an overrun, over
\* two and three years.  The rows of the headcount plan are
\* <<Position, Salary, Start Month>>.
LedgerRuns ==
    {<<[BaseScenario EXCEPT !.volume.y1_bottle_target = I(24),
                            !.volume.y2_growth_pct = One,
                            !.pricing.tasting_room_per_bottle = I(3),
                            !.pricing.club_per_bottle = I(2),
                            !.pricing.wholesale_fob_per_bottle = One,
                            !.pricing.annual_price_increase_pct = inc,
                            !.channel_mix.tasting_room_pct = Q(1, 2),
                            !.channel_mix.club_pct = pct,
                            !.channel_mix.wholesale_pct = pct,
                            !.opex.marketing_pct_of_revenue = Q(1, 2),
                            !.opex.g_and_a_pct_of_revenue = Q(1, 4),
                            !.capex.initial_spend_overrun_pct = Q(1, 4)],
       [BaseConst EXCEPT !.general.forecast_months = n,
                         !.headcount_plan = plan,
                         !.opex.payroll_benefits_tax_pct = Q(1, 2),
                         !.opex.payroll_annual_growth_pct = One,
                         !.opex.rent_y1 = I(12),
                         !.opex.rent_annual_escalator_pct = One,
                         !.opex.utilities_insurance_y1 = I(6),
                         !.opex.utilities_insurance_growth_pct = Q(1, 2),
                         !.capex.initial_spend_month = 2,
                         !.capex.initial_spend_base = I(8),
                         !.capex.equipment_depreciation_years = One]>> :
        inc \in {Zero, Q(1, 2)}, pct \in {Q(1, 4), Q(1, 2)}, n \in {13, 25},
        plan \in {<<>>, <<<<"Distiller", I(120), 1>>, <<"Manager", I(60), 3>>,
                          <<"Sales", I(24), 40>>>>}}

Inputs ==
    CashRuns \cup HorizonRuns \cup RecoveryRuns \cup ExampleRuns
             \cup FinancingRuns \cup RangeRuns \cup TaxRuns \cup LedgerRuns

-----------------------------------------------------------------------------
(* DistilleryModel.__init__                                                *)

Init ==
    /\ \E in \in Inputs : scenario = in[1] /\ const = in[2]
    /\ months = 0
    /\ df = [index |-> <<>>, col |-> EmptyCols]
    /\ pc = "new"
    /\ exc = "none"
    /\ m = 0
    /\ cash = <<>>
    /\ revolver = <<>>
    /\ interest_paid = <<>>
    /\ revolver_draw_repay = <<>>
    /\ cbf = <<>>
    /\ results = "none"
    /\ log = EmptyLog
    /\ peer = "none"
    /\ alone = "none"
    /\ boundary = "none"
    /\ debouncer = "none"
    /\ memo = "none"

Construct ==
    /\ pc = "new"
    /\ months' = const.general.forecast_months
    /\ df' = [index |-> [i \in 1..const.general.forecast_months |-> i],
              col |-> EmptyCols]
    /\ pc' = "constructed"
    /\ UNCHANGED <<scenario, const, exc, m, cash, revolver, interest_paid,
                   revolver_draw_repay, cbf, results, log, others>>

-----------------------------------------------------------------------------
(* run_model, stage by stage                                               *)

Raise(e) ==
    /\ pc' = "raised"
    /\ exc' = e

CalculateSchedule ==
    /\ pc = "constructed"
    /\ LET d1 == SetCol(df, "Year", [l \in Labels(df) |-> CeilDiv(l, 12)])
           d2 == SetCol(d1, "Month of Year", [l \in Labels(df) |-> l % 12])
           d3 == SetCol(d2, "Month of Year",
                        [l \in Labels(df) |->
                           IF d2.col["Month of Year"][l] = 0 THEN 12
                           ELSE d2.col["Month of Year"][l]])
       IN  df' = d3 /\ log' = Record(log, "schedule", ScheduleEvents(d2))
    /\ pc' = "schedule"
    /\ UNCHANGED <<scenario, const, months, exc, m, cash, revolver,
                   interest_paid, revolver_draw_repay, cbf, results, others>>

\* annual_volumes of lines 72-75: years 1, 2 and 3..LastVolumeYear
RECURSIVE AnnualVolumes(_, _)
AnnualVolumes(v, k) ==
    IF k = 1 THEN <<v.y1_bottle_target>>
    ELSE LET prev == AnnualVolumes(v, k - 1)
             g == IF k = 2 THEN v.y2_growth_pct ELSE v.y3_onwards_growth_pct
         IN  Append(prev, Mul(prev[k - 1], Add(One, g)))

ChannelPriceEscalatedInYearOne(s, channel, year) ==
    Mul(s.pricing[channel], Pow(Add(One, s.pricing.annual_price_increase_pct), year))

ChannelPrice(s, channel, year) ==
    Mul(s.pricing[channel], Pow(Add(One, s.pricing.annual_price_increase_pct), year - 1))

CalculateVolumeAndRevenue ==
    /\ pc = "schedule"
    /\ LET annual_volumes == AnnualVolumes(scenario.volume, LastVolumeYear)
           year == df.col["Year"]
           L == Labels(df)
       IN  IF \E l \in L : year[l] - 1 >= Len(annual_volumes)
           THEN /\ Raise("IndexError")
                /\ df' = df
                /\ log' = Record(log, "volume", <<Rd("Year")>>)
           ELSE
             LET d1 == SetCol(df, "Annual Volume", [l \in L |-> annual_volumes[year[l]]])
                 d2 == SetCol(d1, "Monthly Volume",
                              [l \in L |-> Div(d1.col["Annual Volume"][l], I(12))])
                 d3 == SetCol(d2, "tasting_room_price",
                              [l \in L |-> ChannelPrice(scenario, "tasting_room_per_bottle", year[l])])
                 d4 == SetCol(d3, "club_price",
                              [l \in L |-> ChannelPrice(scenario, "club_per_bottle", year[l])])
                 d5 == SetCol(d4, "wholesale_fob_price",
                              [l \in L |-> ChannelPrice(scenario, "wholesale_fob_per_bottle", year[l])])
                 vol == d5.col["Monthly Volume"]
                 d6 == SetCol(d5, "tasting_room_revenue",
                              [l \in L |-> Mul(Mul(vol[l], scenario.channel_mix.tasting_room_pct),
                                               d5.col["tasting_room_price"][l])])
                 d7 == SetCol(d6, "club_revenue",
                              [l \in L |-> Mul(Mul(vol[l], scenario.channel_mix.club_pct),
                                               d5.col["club_price"][l])])
                 d8 == SetCol(d7, "wholesale_revenue",
                              [l \in L |-> Mul(Mul(vol[l], scenario.channel_mix.wholesale_pct),
                                               d5.col["wholesale_fob_price"][l])])
                 d9 == SetCol(d8, "Revenue",
                              [l \in L |-> Add(Add(d8.col["tasting_room_revenue"][l],
                                                   d8.col["club_revenue"][l]),
                                               d8.col["wholesale_revenue"][l])])
             IN  /\ df' = d9
                 /\ log' = Record(log, "volume", VolumeEvents(L))
                 /\ pc' = "volume"
                 /\ exc' = exc
    /\ UNCHANGED <<scenario, const, months, m, cash, revolver,
                   interest_paid, revolver_draw_repay, cbf, results, others>>

CalculateCogs ==
    /\ pc = "volume"
    /\ LET cogs_per_bottle == SumSeq(scenario.cogs_per_bottle)
       IN  df' = SetCol(df, "COGS",
                        [l \in Labels(df) |->
                           Mul(Neg(df.col["Monthly Volume"][l]), cogs_per_bottle)])
    /\ log' = Record(log, "cogs", CogsEvents(Labels(df)))
    /\ pc' = "cogs"
    /\ UNCHANGED <<scenario, const, months, exc, m, cash, revolver,
                   interest_paid, revolver_draw_repay, cbf, results, others>>

\* monthly_payroll of lines 103-105 for the row labelled l: the rows of the
\* headcount plan are <<Position, Salary, Start Month>>.
RECURSIVE MonthlyPayroll(_, _)
MonthlyPayroll(plan, l) ==
    IF plan = <<>> THEN Zero
    ELSE Add(MonthlyPayroll(SubSeq(plan, 1, Len(plan) - 1), l),
             IF l >= plan[Len(plan)][3] THEN Div(plan[Len(plan)][2], I(12)) ELSE Zero)

EscalatedLinearly(y1, growth, year) ==
    Mul(Neg(Div(y1, I(12))), Add(One, Mul(growth, I(year - 1))))

Escalated(y1, growth, year) == Mul(Neg(Div(y1, I(12))), Pow(Add(One, growth), year - 1))

CalculateOpex ==
    /\ pc = "cogs"
    /\ LET L == Labels(df)
           year == df.col["Year"]
           benefits_multiplier == Add(One, const.opex.payroll_benefits_tax_pct)
           payroll_growth == const.opex.payroll_annual_growth_pct
           d1 == SetCol(df, "Payroll",
                   [l \in L |-> Mul(Mul(Neg(MonthlyPayroll(const.headcount_plan, l)),
                                        benefits_multiplier),
                                    Pow(Add(One, payroll_growth), year[l] - 1))])
           d2 == SetCol(d1, "Rent",
                   [l \in L |-> Escalated(const.opex.rent_y1,
                                          const.opex.rent_annual_escalator_pct, year[l])])
           d3 == SetCol(d2, "Utilities & Insurance",
                   [l \in L |-> Escalated(const.opex.utilities_insurance_y1,
                                          const.opex.utilities_insurance_growth_pct, year[l])])
           d4 == SetCol(d3, "Marketing",
                   [l \in L |-> Mul(Neg(df.col["Revenue"][l]),
                                    scenario.opex.marketing_pct_of_revenue)])
           d5 == SetCol(d4, "G&A",
                   [l \in L |-> Mul(Neg(df.col["Revenue"][l]),
                                    scenario.opex.g_and_a_pct_of_revenue)])
           d6 == SetCol(d5, "OpEx",
                   [l \in L |-> Add(Add(Add(Add(d5.col["Payroll"][l], d5.col["Rent"][l]),
                                            d5.col["Utilities & Insurance"][l]),
                                        d5.col["Marketing"][l]),
                                    d5.col["G&A"][l])])
       IN  df' = d6 /\ log' = Record(log, "opex", OpexEvents(L))
    /\ pc' = "opex"
    /\ UNCHANGED <<scenario, const, months, exc, m, cash, revolver,
                   interest_paid, revolver_draw_repay, cbf, results, others>>

CapexAmountWithoutOverrun == const.capex.initial_spend_base

CapexAmount ==
    Mul(const.capex.initial_spend_base, Add(One, scenario.capex.initial_spend_overrun_pct))

\* monthly_depr of line 132, for a depreciation life that is not zero
MonthlyDepr(capex_amount, depr_years) == Div(capex_amount, Mul(depr_years, I(12)))

DepreciationColumnFromNextMonth(L, capex_month, monthly_depr) ==
    [l \in L |-> IF l > capex_month THEN Neg(monthly_depr) ELSE Zero]

\* the Depreciation column of lines 134-135
DepreciationColumn(L, capex_month, monthly_depr) ==
    [l \in L |-> IF l >= capex_month THEN Neg(monthly_depr) ELSE Zero]

CalculateCapexAndDepreciation ==
    /\ pc = "opex"
    /\ LET capex_month == const.capex.initial_spend_month
           capex_amount == CapexAmount
           d1 == SetCol(df, "CapEx", [l \in Labels(df) |-> Zero])
           d2 == IF capex_month \in Labels(d1)
                 THEN SetCell(d1, capex_month, "CapEx", Neg(capex_amount))
                 ELSE Enlarge(d1, capex_month, "CapEx", Neg(capex_amount))
           depr_years == const.capex.equipment_depreciation_years
       IN  IF IsZero(Mul(depr_years, I(12)))
           THEN /\ Raise("ZeroDivisionError")
                /\ df' = d2
                /\ log' = Record(log, "capex", CapexEvents(Labels(df), capex_month))
           ELSE /\ df' = SetCol(d2, "Depreciation",
                           DepreciationColumn(Labels(d2), capex_month,
                                              MonthlyDepr(capex_amount, depr_years)))
                /\ log' = Record(log, "capex",
                                 CapexEvents(Labels(df), capex_month)
                                   \o DepreciationEvents(Labels(d2), capex_month))
                /\ pc' = "capex"
                /\ exc' = exc
    /\ UNCHANGED <<scenario, const, months, m, cash, revolver,
                   interest_paid, revolver_draw_repay, cbf, results, others>>

-----------------------------------------------------------------------------
(* _build_pnl_and_cash_flow: the P&L items, the cash/revolver loop (one    *)
(* action per iteration) and the columns stored after the loop.            *)

OpeningCashWithoutSafe == const.financing.initial_cash_position

\* cash[0] of line 147
OpeningCash ==
    Add(const.financing.initial_cash_position, const.financing.safe_round_investment)

BuildPnl ==
    /\ pc = "capex"
    /\ LET L == Labels(df)
           d1 == SetCol(df, "Gross Profit",
                        [l \in L |-> Add(df.col["Revenue"][l], df.col["COGS"][l])])
           d2 == SetCol(d1, "EBITDA",
                        [l \in L |-> Add(d1.col["Gross Profit"][l], d1.col["OpEx"][l])])
           d3 == SetCol(d2, "EBIT",
                        [l \in L |-> Add(d2.col["EBITDA"][l], d2.col["Depreciation"][l])])
       IN  df' = d3 /\ log' = Record(log, "pnl", PnlEvents(L))
    /\ cash' = [[i \in 0..months |-> Zero] EXCEPT ![0] = OpeningCash]
    /\ revolver' = [i \in 0..months |-> Zero]
    /\ interest_paid' = [i \in 0..(months - 1) |-> Zero]
    /\ revolver_draw_repay' = [i \in 0..(months - 1) |-> Zero]
    /\ cbf' = <<>>
    /\ m' = 1
    /\ pc' = "loop"
    /\ UNCHANGED <<scenario, const, months, exc, results, others>>

RevolverOfCurrentMonth == revolver[m]

\* revolver[m-1] of line 153: the balance the month starts with
PriorRevolver == revolver[m - 1]

\* interest of line 153 on the revolver balance prev
Interest(prev) == Div(Mul(Neg(prev), const.financing.revolver_interest_rate), I(12))

TaxesOnLossesToo(ebt) ==
    Mul(Neg(ebt), Add(const.tax.federal_income_tax_rate,
                      const.tax.oregon_state_income_tax_rate))

\* taxes of lines 158-159
Taxes(ebt) ==
    LET tax_rate == Add(const.tax.federal_income_tax_rate,
                        const.tax.oregon_state_income_tax_rate)
    IN  IF Gt(ebt, Zero) THEN Mul(Neg(ebt), tax_rate) ELSE Zero

CfoWithoutAddBack(net_income, depreciation) == Add(net_income, depreciation)

\* cfo of line 170
Cfo(net_income, depreciation) == Sub(net_income, depreciation)

DrawRepayNeverDrawing(cash_before_financing, prev) ==
    IF Lt(cash_before_financing, Zero)
    THEN Zero
    ELSE Neg(Min(cash_before_financing, prev))

DrawRepayNeverRepaying(cash_before_financing, prev) ==
    IF Lt(cash_before_financing, Zero)
    THEN Min(Neg(cash_before_financing), Sub(const.financing.revolver_limit, prev))
    ELSE Zero

DrawRepayRepayingAllCash(cash_before_financing, prev) ==
    IF Lt(cash_before_financing, Zero)
    THEN Min(Neg(cash_before_financing), Sub(const.financing.revolver_limit, prev))
    ELSE Neg(cash_before_financing)

DrawRepayAgainstWholeLimit(cash_before_financing, prev) ==
    IF Lt(cash_before_financing, Zero)
    THEN Min(Neg(cash_before_financing), const.financing.revolver_limit)
    ELSE Neg(Min(cash_before_financing, prev))

DrawRepayCoveringShortfall(cash_before_financing, prev) ==
    IF Lt(cash_before_financing, Zero)
    THEN Neg(cash_before_financing)
    ELSE Neg(Min(cash_before_financing, prev))

\* revolver_draw_repay[m-1] of lines 176-181
DrawRepay(cash_before_financing, prev) ==
    IF Lt(cash_before_financing, Zero)
    THEN Min(Neg(cash_before_financing), Sub(const.financing.revolver_limit, prev))
    ELSE Neg(Min(cash_before_financing, prev))

CashLoopStep ==
    /\ pc = "loop"
    /\ m <= months
    /\ LET interest == Interest(PriorRevolver)
           ebt == Add(df.col["EBIT"][m], interest)
           taxes == Taxes(ebt)
           net_income == Add(ebt, taxes)
           cfo == Cfo(net_income, df.col["Depreciation"][m])
           cfi == df.col["CapEx"][m]
           cash_before_financing == Add(Add(cash[m - 1], cfo), cfi)
           dr == DrawRepay(cash_before_financing, revolver[m - 1])
       IN  /\ interest_paid' = [interest_paid EXCEPT ![m - 1] = interest]
           /\ df' = SetCell(SetCell(SetCell(SetCell(df, m, "Interest", interest),
                                            m, "EBT", ebt),
                                    m, "Taxes", taxes),
                            m, "Net Income", net_income)
           /\ cbf' = Append(cbf, cash_before_financing)
           /\ revolver_draw_repay' = [revolver_draw_repay EXCEPT ![m - 1] = dr]
           /\ revolver' = [revolver EXCEPT ![m] = Add(revolver[m - 1], dr)]
           /\ cash' = [cash EXCEPT ![m] = Add(cash_before_financing, dr)]
    /\ log' = Record(log, "pnl", LoopEvents(m))
    /\ m' = m + 1
    /\ UNCHANGED <<scenario, const, months, pc, exc, results, others>>

RollingWindow == 6

RunwaySentinel == 999

RECURSIVE SumOver(_, _, _)
SumOver(f, lo, hi) == IF lo > hi THEN Zero ELSE Add(f[hi], SumOver(f, lo, hi - 1))

ExpandingMean(f, i) == Div(SumOver(f, 1, i), I(i))

\* .rolling(window=6, min_periods=1).mean() at position i of the values f[1..]
RollingMean(f, i) ==
    LET lo == IF i - RollingWindow + 1 < 1 THEN 1 ELSE i - RollingWindow + 1
    IN  Div(SumOver(f, lo, i), I(i - lo + 1))

RunwayOfPositiveCash(monthly_burn, ending_cash) ==
    IF Lt(monthly_burn, Zero) /\ Gt(ending_cash, Zero)
    THEN Div(Neg(ending_cash), monthly_burn)
    ELSE I(RunwaySentinel)

\* np.where(monthly_burn < 0, -ending_cash / monthly_burn, 999)
Runway(monthly_burn, ending_cash) ==
    IF Lt(monthly_burn, Zero) THEN Div(Neg(ending_cash), monthly_burn)
    ELSE I(RunwaySentinel)

EndingCashBeforeFinancing(cs, i) == cbf[i]

BeginningCashShifted(cs, i) == cs[i]

\* cash[:-1] and cash[1:] of lines 187-188, at position i of the index
BeginningCash(cs, i) == cs[i - 1]

EndingCash(cs, i) == cs[i]

StoreResults ==
    /\ pc = "loop"
    /\ m > months
    /\ IF Len(df.index) # months
       THEN Raise("ValueError") /\ df' = df /\ log' = log
       ELSE
         LET n == Len(df.index)
             at(l) == CHOOSE i \in 1..n : df.index[i] = l
             L == Labels(df)
             d1 == SetCol(df, "Beginning Cash", [l \in L |-> BeginningCash(cash, at(l))])
             d2 == SetCol(d1, "Ending Cash", [l \in L |-> EndingCash(cash, at(l))])
             d3 == SetCol(d2, "Revolver Balance", [l \in L |-> revolver[at(l)]])
             d4 == SetCol(d3, "Revolver Draw/(Repay)",
                          [l \in L |-> revolver_draw_repay[at(l) - 1]])
             d5 == SetCol(d4, "CFO",
                          [l \in L |-> Sub(d4.col["Net Income"][l], d4.col["Depreciation"][l])])
             d6 == SetCol(d5, "CFI", d5.col["CapEx"])
             d7 == SetCol(d6, "CFF", d6.col["Revolver Draw/(Repay)"])
             d8 == SetCol(d7, "FCF", [l \in L |-> Add(d7.col["CFO"][l], d7.col["CFI"][l])])
             d9 == SetCol(d8, "Net Cash Flow",
                          [l \in L |-> Add(d8.col["FCF"][l], d8.col["CFF"][l])])
             ncf == [i \in 1..n |-> d9.col["Net Cash Flow"][df.index[i]]]
             d10 == SetCol(d9, "Runway (Months)",
                           [l \in L |-> Runway(RollingMean(ncf, at(l)),
                                               d9.col["Ending Cash"][l])])
         IN  /\ df' = d10
             /\ log' = Record(log, "pnl", StoreEvents(L))
             /\ pc' = "pnl"
             /\ exc' = exc
    /\ UNCHANGED <<scenario, const, months, m, cash, revolver,
                   interest_paid, revolver_draw_repay, cbf, results, others>>

-----------------------------------------------------------------------------
(* _calculate_cap_table and the dict run_model returns                     *)

SafeInvestmentFromOpeningCash == cash[0]

\* safe_investment of line 215
SafeInvestment == const.financing.safe_round_investment

PreMoneyShares ==
    Add(const.financing.founder_shares, const.financing.early_investor_shares)

SeriesAPrice(pre_money_shares) ==
    Div(scenario.financing.series_a_pre_money_valuation, pre_money_shares)

EffectiveSafePriceFromCap(pre_money_shares, series_a_price) ==
    Div(scenario.financing.safe_valuation_cap, pre_money_shares)

\* effective_safe_price of lines 210-212
EffectiveSafePrice(pre_money_shares, series_a_price) ==
    LET price_from_cap == Div(scenario.financing.safe_valuation_cap, pre_money_shares)
        price_from_discount == Mul(series_a_price,
                                   Sub(One, scenario.financing.safe_discount))
    IN  Min(price_from_cap, price_from_discount)

TotalSharesWithoutSafe(pre_money_shares, safe_shares, series_a_shares) ==
    Add(pre_money_shares, series_a_shares)

\* total_shares of line 222
TotalShares(pre_money_shares, safe_shares, series_a_shares) ==
    Add(Add(pre_money_shares, safe_shares), series_a_shares)

\* The divisors of lines 207-238 in the order the code divides by them; a
\* zero divisor raises ZeroDivisionError and no cap table is returned.
CapTableRaises ==
    LET pre == PreMoneyShares
    IN  \/ IsZero(pre)
        \/ IsZero(EffectiveSafePrice(pre, SeriesAPrice(pre)))
        \/ IsZero(SeriesAPrice(pre))
        \/ LET price == SeriesAPrice(pre)
               safe_shares == Div(SafeInvestment,
                                  EffectiveSafePrice(pre, price))
               series_a_shares == Div(const.financing.series_a_investment, price)
           IN  IsZero(TotalShares(pre, safe_shares, series_a_shares))

CapTable ==
    LET pre_money_shares == PreMoneyShares
        series_a_valuation == scenario.financing.series_a_pre_money_valuation
        series_a_price == SeriesAPrice(pre_money_shares)
        effective_safe_price == EffectiveSafePrice(pre_money_shares, series_a_price)
        safe_shares == Div(SafeInvestment, effective_safe_price)
        series_a_shares == Div(const.financing.series_a_investment, series_a_price)
        total_shares == TotalShares(pre_money_shares, safe_shares, series_a_shares)
        class(shares) == [Shares |-> shares, OwnershipPct |-> Div(shares, total_shares)]
    IN  [SeriesAPreMoneyValuation |-> series_a_valuation,
         EffectiveSAFEConversionPrice |-> effective_safe_price,
         SeriesAPricePerShare |-> series_a_price,
         FounderAndEarlyInvestors |-> class(pre_money_shares),
         SAFEInvestors |-> class(safe_shares),
         SeriesAInvestors |-> class(series_a_shares),
         TotalPostMoney |-> [Shares |-> total_shares, OwnershipPct |-> One]]

PnlColumns ==
    {"Revenue", "COGS", "Gross Profit", "OpEx", "EBITDA", "Depreciation", "EBIT",
     "Interest", "EBT", "Taxes", "Net Income"}

CashFlowColumns ==
    {"Net Income", "Depreciation", "CFO", "CapEx", "CFI", "FCF",
     "Revolver Draw/(Repay)", "CFF", "Net Cash Flow", "Beginning Cash", "Ending Cash"}

\* self.df[[...]]
Project(d, names) == [index |-> d.index, col |-> [c \in names |-> d.col[c]]]

CalculateCapTable ==
    /\ pc = "pnl"
    /\ IF CapTableRaises
       THEN Raise("ZeroDivisionError") /\ results' = results
       ELSE /\ results' = [pnl |-> Project(df, PnlColumns),
                           cash_flow |-> Project(df, CashFlowColumns),
                           metrics |-> Project(df, {"Runway (Months)"}),
                           cap_table |-> CapTable,
                           scenario_name |-> scenario.name]
            /\ pc' = "returned"
            /\ exc' = exc
    /\ UNCHANGED <<scenario, const, months, df, m, cash, revolver,
                   interest_paid, revolver_draw_repay, cbf, log, others>>

Next ==
    \/ Construct
    \/ CalculateSchedule
    \/ CalculateVolumeAndRevenue
    \/ CalculateCogs
    \/ CalculateOpex
    \/ CalculateCapexAndDepreciation
    \/ BuildPnl
    \/ CashLoopStep
    \/ StoreResults
    \/ CalculateCapTable

Spec == Init /\ [][Next]_vars

-----------------------------------------------------------------------------
(* Two DistilleryModel instances built from one constants record, their    *)
(* steps interleaved.  The variables above hold the instance that is       *)
(* running; peer holds the other one.  Each instance is first run alone    *)
(* (FinishAlone records what it ended with), then the two are started      *)
(* again and Switch passes control from one to the other between steps.    *)
(* const is the one record both constructors were given.                   *)

Terminal == {"returned", "raised"}

\* the attributes of an instance of scenario s on entry to __init__
Fresh(s) ==
    [scenario |-> s, months |-> 0, df |-> [index |-> <<>>, col |-> EmptyCols],
     pc |-> "new", exc |-> "none", m |-> 0, cash |-> <<>>, revolver |-> <<>>,
     interest_paid |-> <<>>, revolver_draw_repay |-> <<>>, cbf |-> <<>>,
     results |-> "none", log |-> EmptyLog]

\* the attributes and locals of the running instance
Running ==
    [scenario |-> scenario, months |-> months, df |-> df, pc |-> pc, exc |-> exc,
     m |-> m, cash |-> cash, revolver |-> revolver, interest_paid |-> interest_paid,
     revolver_draw_repay |-> revolver_draw_repay, cbf |-> cbf,
     results |-> results, log |-> log]

SharedLedger(instance, running) == running

\* self.df of an instance: the DataFrame its own __init__ created
InstanceLedger(instance, running) == instance.df

\* control passes to instance
Resume(instance) ==
    /\ scenario' = instance.scenario
    /\ months' = instance.months
    /\ df' = InstanceLedger(instance, df)
    /\ pc' = instance.pc
    /\ exc' = instance.exc
    /\ m' = instance.m
    /\ cash' = instance.cash
    /\ revolver' = instance.revolver
    /\ interest_paid' = instance.interest_paid
    /\ revolver_draw_repay' = instance.revolver_draw_repay
    /\ cbf' = instance.cbf
    /\ results' = instance.results
    /\ log' = instance.log

\* what a run ended with: the return value or the exception, and the ledger
Outcome(instance) ==
    [pc |-> instance.pc, exc |-> instance.exc, df |-> instance.df,
     results |-> instance.results]

\* Short runs that draw on the revolver, with and without sales, with a
\* depreciation life of one year and of zero years (which raises).
PairInputs ==
    {<<[BaseScenario EXCEPT !.volume.y1_bottle_target = v1,
                            !.pricing.tasting_room_per_bottle = I(3)],
       [BaseScenario EXCEPT !.volume.y1_bottle_target = v2,
                            !.pricing.tasting_room_per_bottle = I(3)],
       [BaseConst EXCEPT !.general.forecast_months = 2,
                         !.capex.initial_spend_base = I(8),
                         !.capex.equipment_depreciation_years = yrs,
                         !.financing.revolver_interest_rate = Q(6, 5),
                         !.financing.revolver_limit = I(5),
                         !.financing.safe_round_investment = One]>> :
        v1 \in {Zero, I(12)}, v2 \in {Zero, I(12)}, yrs \in {Zero, One}}

InitPair ==
    /\ \E in \in PairInputs :
         /\ scenario = in[1]
         /\ const = in[3]
         /\ peer = [id |-> 2, self |-> Fresh(in[2])]
         /\ alone = [given |-> <<in[1], in[2]>>, const |-> in[3], out |-> <<>>]
    /\ months = 0
    /\ df = [index |-> <<>>, col |-> EmptyCols]
    /\ pc = "new"
    /\ exc = "none"
    /\ m = 0
    /\ cash = <<>>
    /\ revolver = <<>>
    /\ interest_paid = <<>>
    /\ revolver_draw_repay = <<>>
    /\ cbf = <<>>
    /\ results = "none"
    /\ log = EmptyLog
    /\ boundary = "none"
    /\ debouncer = "none"
    /\ memo = "none"

\* The run of an instance alone has ended: record its outcome and start the
\* other instance (alone, or, when both have run alone, the pair).
FinishAlone ==
    /\ Len(alone.out) < 2
    /\ pc \in Terminal
    /\ alone' = [alone EXCEPT !.out = Append(@, Outcome(Running))]
    /\ Resume(peer.self)
    /\ peer' = [id |-> 3 - peer.id, self |-> Fresh(alone.given[3 - peer.id])]
    /\ UNCHANGED <<const, boundary, debouncer, memo>>

\* Between two steps, control passes to the other instance of the pair.
Switch ==
    /\ Len(alone.out) = 2
    /\ peer.self.pc \notin Terminal
    /\ Resume(peer.self)
    /\ peer' = [id |-> 3 - peer.id, self |-> Running]
    /\ UNCHANGED <<const, alone, boundary, debouncer, memo>>

NextPair ==
    \/ Next
    \/ FinishAlone
    \/ Switch

SpecPair == InitPair /\ [][NextPair]_vars

-----------------------------------------------------------------------------
(* streamlit_app/utils/production.py: error_boundary.  Python values are   *)
(* pairs <<type, value>>.  boundary holds the fallback_value the decorator *)
(* was given and, per call of the wrapper, what the wrapped function did   *)
(* and what the wrapper did.                                               *)

engine == <<scenario, const, months, df, pc, exc, m, cash, revolver,
            interest_paid, revolver_draw_repay, cbf, results, log, peer, alone>>

\* the engine, not started
EngineIdle ==
    /\ scenario = BaseScenario
    /\ const = BaseConst
    /\ months = 0
    /\ df = [index |-> <<>>, col |-> EmptyCols]
    /\ pc = "new"
    /\ exc = "none"
    /\ m = 0
    /\ cash = <<>>
    /\ revolver = <<>>
    /\ interest_paid = <<>>
    /\ revolver_draw_repay = <<>>
    /\ cbf = <<>>
    /\ results = "none"
    /\ log = EmptyLog
    /\ peer = "none"
    /\ alone = "none"

MaxBoundaryCalls == 3

PyNone == <<"None", 0>>

PyInt(i) == <<"int", i>>

FallbackValues == {PyNone, PyInt(0), PyInt(-1)}

FuncResults == {PyNone, PyInt(0), PyInt(5)}

\* ErrorBoundary.__exit__: with an exception in flight it sets
\* error_occurred and returns True, which suppresses the exception.
ErrorBoundaryExit(raised) == [error_occurred |-> raised, suppress |-> raised]

\* wrapper: what a call does when func returns result, or raises.  When
\* func raises, the rest of the with block is skipped, __exit__ suppresses
\* the exception and the wrapper runs off its end.
WrapperCall(fallback_value, raised, result) ==
    LET error_occurred == FALSE
        exit == ErrorBoundaryExit(raised)
    IN  IF raised
        THEN [raised |-> TRUE, result |-> PyNone,
              error_occurred |-> exit.error_occurred,
              propagated |-> ~exit.suppress,
              returned |-> PyNone]
        ELSE [raised |-> FALSE, result |-> result,
              error_occurred |-> error_occurred,
              propagated |-> FALSE,
              returned |-> IF error_occurred THEN fallback_value ELSE result]

InitBoundary ==
    /\ EngineIdle
    /\ \E fv \in FallbackValues : boundary = [fallback_value |-> fv, calls |-> <<>>]
    /\ debouncer = "none"
    /\ memo = "none"

\* a call of the decorated function in which func returns
CallReturning ==
    /\ Len(boundary.calls) < MaxBoundaryCalls
    /\ \E r \in FuncResults :
         boundary' = [boundary EXCEPT !.calls =
                        Append(@, WrapperCall(boundary.fallback_value, FALSE, r))]
    /\ UNCHANGED <<engine, debouncer, memo>>

\* a call of the decorated function in which func raises
CallRaising ==
    /\ Len(boundary.calls) < MaxBoundaryCalls
    /\ boundary' = [boundary EXCEPT !.calls =
                      Append(@, WrapperCall(boundary.fallback_value, TRUE, PyNone))]
    /\ UNCHANGED <<engine, debouncer, memo>>

NextBoundary ==
    \/ CallReturning
    \/ CallRaising

SpecBoundary == InitBoundary /\ [][NextBoundary]_vars

-----------------------------------------------------------------------------
(* streamlit_app/utils/performance.py: debounce (debounced_callback and    *)
(* production.py's debounce do the same).  debouncer holds the clock, the  *)
(* entry st.session_state[last_call_time_key] and, per call of the         *)
(* wrapper, the threading.Timer it started: waiting, cancelled, running    *)
(* (its wait is over and it was not cancelled) or done.  The last timer is *)
(* st.session_state[timer_key].  A timer thread runs when the scheduler    *)
(* lets it, at its due time or later; two calls can read the same          *)
(* time.time().                                                            *)

MaxDebounceCalls == 3

MaxClock == 4

WaitTimes == {1, 2}

LeaveTimerRunning(timer) == timer

\* Timer.cancel(): stops a timer that is still waiting, and nothing else
CancelTimer(timer) ==
    IF timer.state = "waiting" THEN [timer EXCEPT !.state = "cancelled"] ELSE timer

InitDebounce ==
    /\ EngineIdle
    /\ boundary = "none"
    /\ \E w \in WaitTimes :
         debouncer = [wait_time |-> w, now |-> 0, last_call_time |-> -1, timers |-> <<>>]
    /\ memo = "none"

\* wrapper(*args, **kwargs)
DebounceCall ==
    /\ Len(debouncer.timers) < MaxDebounceCalls
    /\ LET current_time == debouncer.now
           n == Len(debouncer.timers)
           cancelled == IF n > 0
                        THEN [debouncer.timers EXCEPT ![n] = CancelTimer(@)]
                        ELSE debouncer.timers
           timer == [current_time |-> current_time,
                     due |-> current_time + debouncer.wait_time,
                     state |-> "waiting", ran |-> 0, calls_at_fire |-> 0]
       IN  debouncer' = [debouncer EXCEPT !.last_call_time = current_time,
                                          !.timers = Append(cancelled, timer)]
    /\ UNCHANGED <<engine, boundary, memo>>

\* time passes
Tick ==
    /\ debouncer.now < MaxClock
    /\ debouncer' = [debouncer EXCEPT !.now = @ + 1]
    /\ UNCHANGED <<engine, boundary, memo>>

\* the wait of a timer that was not cancelled is over
TimerExpires ==
    /\ \E i \in 1..Len(debouncer.timers) :
         /\ debouncer.timers[i].state = "waiting"
         /\ debouncer.now >= debouncer.timers[i].due
         /\ debouncer' = [debouncer EXCEPT !.timers[i].state = "running"]
    /\ UNCHANGED <<engine, boundary, memo>>

\* execute_func() in the thread of a timer
ExecuteFunc ==
    /\ \E i \in 1..Len(debouncer.timers) :
         /\ debouncer.timers[i].state = "running"
         /\ debouncer' =
              [debouncer EXCEPT
                 !.timers[i].state = "done",
                 !.timers[i].calls_at_fire = Len(debouncer.timers),
                 !.timers[i].ran =
                    IF debouncer.last_call_time = debouncer.timers[i].current_time
                    THEN @ + 1 ELSE @]
    /\ UNCHANGED <<engine, boundary, memo>>

NextDebounce ==
    \/ DebounceCall
    \/ Tick
    \/ TimerExpires
    \/ ExecuteFunc

SpecDebounce == InitDebounce /\ [][NextDebounce]_vars

-----------------------------------------------------------------------------
(* streamlit_app/utils/performance.py: memoize_expensive_operation.  memo  *)
(* holds max_size, the dict st.session_state[cache_key] as the sequence of *)
(* its entries in insertion order, the clock, the number of times func was *)
(* invoked, the entries trimmed away and the calls made.  The result of    *)
(* the k-th invocation of func is <<arguments, k>>.                        *)

MaxMemoCalls == 3

MaxMemoClock == 2

MaxSizes == {0, 1, 2}

ArgKeys == {"a", "b", "c"}

\* sorted(entries, key=timestamp): stable insertion sort
RECURSIVE SortedByTimestamp(_)
SortedByTimestamp(entries) ==
    IF entries = <<>> THEN <<>>
    ELSE LET rest == SortedByTimestamp(SubSeq(entries, 1, Len(entries) - 1))
             e == entries[Len(entries)]
             k == Cardinality({i \in 1..Len(rest) : rest[i].timestamp <= e.timestamp})
         IN  SubSeq(rest, 1, k) \o <<e>> \o SubSeq(rest, k + 1, Len(rest))

\* entries[-max_size:], a Python slice: a start of -0 is the start 0
KeepNewest(entries, max_size) ==
    LET start == IF -max_size < 0
                 THEN (IF Len(entries) - max_size < 0 THEN 0 ELSE Len(entries) - max_size)
                 ELSE (IF -max_size > Len(entries) THEN Len(entries) ELSE -max_size)
    IN  SubSeq(entries, start + 1, Len(entries))

CachedKeys(cache) == {cache[i].key : i \in 1..Len(cache)}

InitMemo ==
    /\ EngineIdle
    /\ boundary = "none"
    /\ debouncer = "none"
    /\ \E s \in MaxSizes :
         memo = [max_size |-> s, cache |-> <<>>, now |-> 0, invocations |-> 0,
                 trimmed |-> {}, calls |-> <<>>]

\* wrapper(*args, **kwargs) with arguments of key k
MemoCall ==
    /\ Len(memo.calls) < MaxMemoCalls
    /\ \E k \in ArgKeys :
         IF k \in CachedKeys(memo.cache)
         THEN LET hit == CHOOSE i \in 1..Len(memo.cache) : memo.cache[i].key = k
              IN  memo' = [memo EXCEPT !.calls =
                             Append(@, [key |-> k, cached |-> TRUE, invoked |-> FALSE,
                                        returned |-> memo.cache[hit].result])]
         ELSE LET result == <<k, memo.invocations + 1>>
                  stored == Append(memo.cache,
                                   [key |-> k, result |-> result, timestamp |-> memo.now])
                  kept == IF Len(stored) > memo.max_size
                          THEN KeepNewest(SortedByTimestamp(stored), memo.max_size)
                          ELSE stored
              IN  memo' = [memo EXCEPT
                             !.cache = kept,
                             !.invocations = @ + 1,
                             !.trimmed = @ \cup ({stored[i] : i \in 1..Len(stored)}
                                                   \ {kept[i] : i \in 1..Len(kept)}),
                             !.calls = Append(@, [key |-> k, cached |-> FALSE,
                                                  invoked |-> TRUE,
                                                  returned |-> result])]
    /\ UNCHANGED <<engine, boundary, debouncer>>

\* time passes
MemoTick ==
    /\ memo.now < MaxMemoClock
    /\ memo' = [memo EXCEPT !.now = @ + 1]
    /\ UNCHANGED <<engine, boundary, debouncer>>

NextMemo ==
    \/ MemoCall
    \/ MemoTick

SpecMemo == InitMemo /\ [][NextMemo]_vars

-----------------------------------------------------------------------------
(* Properties                                                              *)

\* the months the cash/revolver loop has completed
Completed == 1..(m - 1)

RevolverLimit == const.financing.revolver_limit

BalanceInRange(b) == Ge(b, Zero) /\ Le(b, RevolverLimit)

RevolverInRange ==
    /\ \A k \in Completed : BalanceInRange(revolver[k])
    /\ HasCol(df, "Revolver Balance") =>
         \A l \in 1..months : BalanceInRange(df.col["Revolver Balance"][l])

\* C1, as stated: after every month of the loop, for every configured limit,
\* 0 <= revolver balance <= revolver_limit.
C1_RevolverInRangeForEveryLimit == RevolverInRange

\* C1, amended: for every configured revolver_limit >= 0, after every month
\* of the loop (and in the stored Revolver Balance column)
\* 0 <= revolver balance <= revolver_limit.
C1_RevolverInRange == Ge(RevolverLimit, Zero) => RevolverInRange

\* A run that drew the revolver up to a positive limit and still ended a
\* month with negative cash, and that held a balance strictly inside the range.
C1_Witness ==
    /\ Gt(RevolverLimit, Zero)
    /\ \E k \in Completed : revolver[k] = RevolverLimit /\ Lt(cash[k], Zero)
    /\ \E k \in Completed : Gt(revolver[k], Zero) /\ Lt(revolver[k], RevolverLimit)

LedgerContinuity(d) ==
    \A l \in 2..months : d.col["Beginning Cash"][l] = d.col["Ending Cash"][l - 1]

\* C2, as stated: Beginning Cash of month m is Ending Cash of month m-1, and
\* Beginning Cash of month 1 is the configured initial cash.
C2_BeginningCashIsInitialCash ==
    pc = "returned" =>
      /\ LedgerContinuity(results.cash_flow)
      /\ results.cash_flow.col["Beginning Cash"][1] = const.financing.initial_cash_position

\* C2, amended: Beginning Cash of month m is Ending Cash of month m-1 for m in
\* 2..N, and Beginning Cash of month 1 is the configured initial cash
\* position plus the SAFE round investment.
C2_LedgerContinuity ==
    pc = "returned" =>
      /\ LedgerContinuity(results.cash_flow)
      /\ results.cash_flow.col["Beginning Cash"][1] =
           Add(const.financing.initial_cash_position,
               const.financing.safe_round_investment)

\* A returned ledger of several months whose cash moved, opened with SAFE
\* proceeds on top of the initial cash position.
C2_Witness ==
    /\ pc = "returned"
    /\ months >= 3
    /\ ~IsZero(const.financing.safe_round_investment)
    /\ ~IsZero(const.financing.initial_cash_position)
    /\ \A l \in 1..months :
         results.cash_flow.col["Ending Cash"][l] # results.cash_flow.col["Beginning Cash"][l]

\* the revolver headroom iteration k of the loop started with
Headroom(k) == Sub(RevolverLimit, revolver[k - 1])

\* C3: in a month whose cash-before-financing is negative the draw is
\* min(shortfall, headroom) and Ending Cash is cash-before-financing + draw,
\* not clamped to zero: -50,000 against 30,000 of headroom draws 30,000 and
\* ends the month at -20,000.
C3_DrawIsCappedShortfall ==
    \A k \in Completed :
      Lt(cbf[k], Zero) =>
        LET shortfall == Neg(cbf[k])
            draw == revolver_draw_repay[k - 1]
        IN  /\ Le(shortfall, Headroom(k)) => draw = shortfall /\ cash[k] = Zero
            /\ Gt(shortfall, Headroom(k)) =>
                 /\ draw = Headroom(k)
                 /\ cash[k] = Add(cbf[k], Headroom(k))
                 /\ Lt(cash[k], Zero)
            /\ cbf[k] = I(-50000) /\ Headroom(k) = I(30000) =>
                 draw = I(30000) /\ cash[k] = I(-20000)

\* The worked example: cash-before-financing -50,000, headroom 30,000.
C3_Witness ==
    \E k \in Completed :
      /\ cbf[k] = I(-50000)
      /\ Headroom(k) = I(30000)
      /\ revolver_draw_repay[k - 1] = I(30000)
      /\ cash[k] = I(-20000)

\* C4: whenever the cap table is computed, the three ownership percentages
\* sum to 1 and the three share counts sum to the total post-money shares.
C4_OwnershipSumsToOne ==
    pc = "returned" =>
      LET ct == results.cap_table
      IN  /\ Add(Add(ct.FounderAndEarlyInvestors.OwnershipPct,
                     ct.SAFEInvestors.OwnershipPct),
                 ct.SeriesAInvestors.OwnershipPct) = One
          /\ Add(Add(ct.FounderAndEarlyInvestors.Shares, ct.SAFEInvestors.Shares),
                 ct.SeriesAInvestors.Shares) = ct.TotalPostMoney.Shares

\* A cap table in which all three classes hold shares.
C4_Witness ==
    /\ pc = "returned"
    /\ Gt(results.cap_table.FounderAndEarlyInvestors.OwnershipPct, Zero)
    /\ Gt(results.cap_table.SAFEInvestors.OwnershipPct, Zero)
    /\ Gt(results.cap_table.SeriesAInvestors.OwnershipPct, Zero)

IsSafeExample ==
    /\ const.financing.safe_round_investment = I(3000000)
    /\ scenario.financing.safe_valuation_cap = I(15000000)
    /\ scenario.financing.safe_discount = Q(1, 5)
    /\ Add(const.financing.founder_shares, const.financing.early_investor_shares)
         = I(10000000)
    /\ scenario.financing.series_a_pre_money_valuation = I(30000000)

\* C5: the effective SAFE price is the smaller of valuation cap / pre-money
\* shares and Series A price x (1 - discount), and SAFE shares x that price
\* is the SAFE investment; the example gives 3.00, 1.50 and 2,000,000 shares.
C5_SafeConversionPrice ==
    pc = "returned" =>
      LET ct == results.cap_table
          pre == Add(const.financing.founder_shares,
                     const.financing.early_investor_shares)
          from_cap == Div(scenario.financing.safe_valuation_cap, pre)
          from_discount == Mul(ct.SeriesAPricePerShare,
                               Sub(One, scenario.financing.safe_discount))
          price == ct.EffectiveSAFEConversionPrice
      IN  /\ ct.SeriesAPricePerShare =
               Div(scenario.financing.series_a_pre_money_valuation, pre)
          /\ price \in {from_cap, from_discount}
          /\ Le(price, from_cap) /\ Le(price, from_discount)
          /\ Mul(ct.SAFEInvestors.Shares, price) = const.financing.safe_round_investment
          /\ IsSafeExample =>
               /\ ct.SeriesAPricePerShare = I(3)
               /\ price = Q(3, 2)
               /\ ct.SAFEInvestors.Shares = I(2000000)

\* The worked example, converted at the cap-implied price.
C5_Witness ==
    /\ pc = "returned"
    /\ IsSafeExample
    /\ results.cap_table.EffectiveSAFEConversionPrice = Q(3, 2)
    /\ results.cap_table.SAFEInvestors.Shares = I(2000000)

InUnitInterval(a) == Ge(a, Zero) /\ Le(a, One)

\* the invalid configurations: a zero or negative share count, a channel-mix
\* percentage outside [0, 1], a non-positive depreciation life
InvalidConfiguration ==
    \/ Le(const.financing.founder_shares, Zero)
    \/ Lt(const.financing.early_investor_shares, Zero)
    \/ ~InUnitInterval(scenario.channel_mix.tasting_room_pct)
    \/ ~InUnitInterval(scenario.channel_mix.club_pct)
    \/ ~InUnitInterval(scenario.channel_mix.wholesale_pct)
    \/ Le(const.capex.equipment_depreciation_years, Zero)

\* C6: an invalid configuration fails at construction with a validation
\* error: it is never constructed, never reaches run_model, and no ledger
\* column or cap table is produced for it.
C6_InvalidConfigurationRejected ==
    InvalidConfiguration =>
      /\ pc \in {"new", "raised"}
      /\ pc = "raised" => exc = "ValidationError"
      /\ df.col = EmptyCols
      /\ results = "none"

\* C7: no division of run_model propagates a division-by-zero exception.
C7_NoDivisionByZeroRaised == exc # "ZeroDivisionError"

\* the months that ended with a shortfall the revolver could not cover
ShortfallMonths == {k \in Completed : Lt(cash[k], Zero)}

\* an exception explained by something other than a cash shortfall: a CapEx
\* month outside 1..N (the frame gained a row) or a zero divisor in the cap table
RaisedForAnotherReason ==
    \/ exc = "ValueError" /\ Len(df.index) # months
    \/ exc = "ZeroDivisionError" /\ CapTableRaises

ShortfallNeverRaises ==
    /\ ShortfallMonths # {} /\ pc = "raised" => RaisedForAnotherReason
    /\ ShortfallMonths # {} /\ pc = "loop" => exc = "none" /\ m <= months + 1
    /\ HasCol(df, "Runway (Months)") => m = months + 1 /\ Len(cbf) = months

\* the average of Net Cash Flow over the last 6 months ending at month l
TrailingBurn(l) ==
    LET lo == IF l <= RollingWindow THEN 1 ELSE l - RollingWindow + 1
    IN  Div(SumOver(df.col["Net Cash Flow"], lo, l), I(l - lo + 1))

\* C8, as stated: a shortfall beyond the revolver limit never raises, all N
\* months complete, and every month whose Ending Cash is negative reports a
\* finite Runway rather than the 999 sentinel.
C8_NegativeCashHasFiniteRunway ==
    /\ ShortfallNeverRaises
    /\ HasCol(df, "Runway (Months)") =>
         \A l \in 1..months :
           Lt(df.col["Ending Cash"][l], Zero) =>
             /\ ~IsNaN(df.col["Runway (Months)"][l])
             /\ df.col["Runway (Months)"][l] # I(RunwaySentinel)

\* C8, amended: a shortfall beyond the revolver limit never raises, all N
\* months complete, and every month whose Ending Cash is negative and whose
\* trailing 6-month average Net Cash Flow is negative reports the finite
\* Runway -Ending Cash / average rather than the 999 sentinel.
C8_BurningNegativeCashHasFiniteRunway ==
    /\ ShortfallNeverRaises
    /\ HasCol(df, "Runway (Months)") =>
         \A l \in 1..months :
           Lt(df.col["Ending Cash"][l], Zero) /\ Lt(TrailingBurn(l), Zero) =>
             /\ ~IsNaN(df.col["Runway (Months)"][l])
             /\ df.col["Runway (Months)"][l] # I(RunwaySentinel)
             /\ df.col["Runway (Months)"][l] =
                  Div(Neg(df.col["Ending Cash"][l]), TrailingBurn(l))

\* A completed ledger with a positive revolver limit fully drawn and a month
\* of negative Ending Cash, burning on average, whose Runway is not 999.
C8_Witness ==
    /\ HasCol(df, "Runway (Months)")
    /\ Gt(RevolverLimit, Zero)
    /\ \E l \in 1..months :
         /\ df.col["Revolver Balance"][l] = RevolverLimit
         /\ Lt(df.col["Ending Cash"][l], Zero)
         /\ Lt(TrailingBurn(l), Zero)
         /\ df.col["Runway (Months)"][l] # I(RunwaySentinel)

\* C9: Depreciation is 0 in every month before the CapEx spend month and
\* -capex_amount / (depreciation_years x 12) in every month from the spend
\* month to the end of the horizon.
C9_StraightLineDepreciation ==
    HasCol(df, "Depreciation") =>
      \A l \in 1..months :
        /\ l < const.capex.initial_spend_month => df.col["Depreciation"][l] = Zero
        /\ l >= const.capex.initial_spend_month =>
             df.col["Depreciation"][l] =
               Neg(Div(Mul(const.capex.initial_spend_base,
                           Add(One, scenario.capex.initial_spend_overrun_pct)),
                       Mul(const.capex.equipment_depreciation_years, I(12))))

\* A 25-month ledger with the spend in month 13 and a one-year life: nothing
\* before month 13, and month 25, past the useful life, as month 13.
C9_Witness ==
    /\ HasCol(df, "Depreciation")
    /\ months = 25
    /\ const.capex.initial_spend_month = 13
    /\ const.capex.equipment_depreciation_years = One
    /\ df.col["Depreciation"][12] = Zero
    /\ df.col["Depreciation"][13] = I(-10)
    /\ df.col["Depreciation"][25] = I(-10)

\* the annual volume of year y: the target, then the year-2 growth, then the
\* year-3+ growth each year
RECURSIVE VolumeOfYear(_)
VolumeOfYear(y) ==
    IF y = 1 THEN scenario.volume.y1_bottle_target
    ELSE Mul(VolumeOfYear(y - 1),
             Add(One, IF y = 2 THEN scenario.volume.y2_growth_pct
                      ELSE scenario.volume.y3_onwards_growth_pct))

\* C10: for any horizon N the volume stage gives every month m in 1..N the
\* Monthly Volume = annual volume of year ceil(m/12) / 12; a 50,000 target
\* with 25% growth gives 62,500 for year 2 and 62,500/12 for month 13.
C10_VolumeForEveryYearOfHorizon ==
    pc \notin {"new", "constructed", "schedule"} =>
      /\ HasCol(df, "Monthly Volume")
      /\ \A l \in 1..months :
           df.col["Monthly Volume"][l] = Div(VolumeOfYear(CeilDiv(l, 12)), I(12))
      /\ scenario.volume = VolumeExample[1].volume /\ months >= 13 =>
           /\ df.col["Annual Volume"][13] = I(62500)
           /\ df.col["Monthly Volume"][13] = Q(62500, 12)

\* the cap table as a function of the seven financing inputs alone
FinancingOnlyCapTable(founder, early, safe, cap, discount, valuation, series_a) ==
    LET pre == Add(founder, early)
        a_price == Div(valuation, pre)
        safe_price == Min(Div(cap, pre), Mul(a_price, Sub(One, discount)))
        safe_shares == Div(safe, safe_price)
        a_shares == Div(series_a, a_price)
        total == Add(Add(pre, safe_shares), a_shares)
    IN  [SeriesAPreMoneyValuation |-> valuation,
         EffectiveSAFEConversionPrice |-> safe_price,
         SeriesAPricePerShare |-> a_price,
         FounderAndEarlyInvestors |->
             [Shares |-> pre, OwnershipPct |-> Div(pre, total)],
         SAFEInvestors |->
             [Shares |-> safe_shares, OwnershipPct |-> Div(safe_shares, total)],
         SeriesAInvestors |->
             [Shares |-> a_shares, OwnershipPct |-> Div(a_shares, total)],
         TotalPostMoney |-> [Shares |-> total, OwnershipPct |-> One]]

\* C11: the cap table run_model returns is a function of the financing
\* inputs alone (founder and early-investor shares, SAFE investment, cap and
\* discount, Series A valuation and investment), so runs that differ only in
\* the other inputs, and in their ledgers, return identical cap tables.
C11_CapTableDependsOnFinancingOnly ==
    pc = "returned" =>
      results.cap_table =
        FinancingOnlyCapTable(const.financing.founder_shares,
                              const.financing.early_investor_shares,
                              const.financing.safe_round_investment,
                              scenario.financing.safe_valuation_cap,
                              scenario.financing.safe_discount,
                              scenario.financing.series_a_pre_money_valuation,
                              const.financing.series_a_investment)

\* A returned run with sales, a drawn revolver, an opening cash position and
\* SAFE shares in the cap table.
C11_Witness ==
    /\ pc = "returned"
    /\ Gt(results.cap_table.SAFEInvestors.Shares, Zero)
    /\ Gt(const.financing.initial_cash_position, Zero)
    /\ Gt(results.pnl.col["Revenue"][1], Zero)
    /\ \E l \in 1..months : Gt(results.cash_flow.col["Revolver Draw/(Repay)"][l], Zero)

C18_InterestOnPriorBalance ==
    \A k \in Completed :
      /\ df.col["Interest"][k] =
           Neg(Div(Mul(revolver[k - 1], const.financing.revolver_interest_rate), I(12)))
      /\ interest_paid[k - 1] = df.col["Interest"][k]
      /\ df.col["EBT"][k] = Add(df.col["EBIT"][k], df.col["Interest"][k])
      /\ k = 1 => df.col["Interest"][k] = Zero

\* A draw in month k with no interest in month k and interest in month k+1.
C18_Witness ==
    \E k \in Completed :
      /\ k + 1 \in Completed
      /\ Gt(revolver_draw_repay[k - 1], Zero)
      /\ df.col["Interest"][k] = Zero
      /\ Lt(df.col["Interest"][k + 1], Zero)
      /\ Lt(df.col["EBT"][k + 1], df.col["EBIT"][k + 1])

\* C19: Taxes = -EBT x (federal + state rate) when EBT > 0 and 0 when
\* EBT <= 0, whatever the earlier months lost, and Net Income = EBT + Taxes.
C19_TaxesOnPositiveEbtOnly ==
    \A k \in Completed :
      LET ebt == df.col["EBT"][k]
          rate == Add(const.tax.federal_income_tax_rate,
                      const.tax.oregon_state_income_tax_rate)
      IN  /\ Gt(ebt, Zero) => df.col["Taxes"][k] = Neg(Mul(ebt, rate))
          /\ Le(ebt, Zero) => df.col["Taxes"][k] = Zero
          /\ df.col["Net Income"][k] = Add(ebt, df.col["Taxes"][k])

\* A taxed profit in a month that follows a month of loss, the loss untaxed.
C19_Witness ==
    \E k \in Completed :
      /\ k + 1 \in Completed
      /\ Lt(df.col["EBT"][k], Zero) /\ df.col["Taxes"][k] = Zero
      /\ Gt(df.col["EBT"][k + 1], Zero) /\ Lt(df.col["Taxes"][k + 1], Zero)

\* C20: cash-before-financing of month m is Ending Cash of month m-1 (the
\* opening cash for m = 1) + CFO + CFI with CFO = Net Income - Depreciation
\* and CFI = CapEx, and the stored CFO and CFI columns are the loop's values.
C20_CashBeforeFinancing ==
    HasCol(df, "CFO") =>
      \A l \in 1..months :
        /\ df.col["CFO"][l] = Sub(df.col["Net Income"][l], df.col["Depreciation"][l])
        /\ df.col["CFI"][l] = df.col["CapEx"][l]
        /\ cbf[l] = Add(Add(IF l = 1 THEN cash[0] ELSE df.col["Ending Cash"][l - 1],
                            df.col["CFO"][l]),
                        df.col["CFI"][l])

\* A ledger with a depreciation add-back and a CapEx outflow in one month.
C20_Witness ==
    /\ HasCol(df, "CFO")
    /\ months >= 2
    /\ \E l \in 1..months :
         /\ Lt(df.col["Depreciation"][l], Zero)
         /\ Gt(df.col["CFO"][l], df.col["Net Income"][l])
         /\ Lt(df.col["CFI"][l], Zero)
         /\ ~IsZero(df.col["Net Income"][l])

\* the stages that assigned column c
Writers(lg, c) == {lg.w[c][i].stage : i \in 1..Len(lg.w[c])}

OneStagePerColumn(lg) == \A c \in DOMAIN lg.w : Cardinality(Writers(lg, c)) = 1

\* the columns that hold the cash/revolver recurrence and its P&L lines
RecurrenceColumns ==
    {"Interest", "EBT", "Taxes", "Net Income", "Beginning Cash", "Ending Cash",
     "Revolver Balance", "Revolver Draw/(Repay)"}

\* the columns a stage initialises and then patches
PatchedColumns == {"Month of Year", "CapEx", "Depreciation"}

\* the columns the loop fills one row per iteration
LoopColumns == {"Interest", "EBT", "Taxes", "Net Income"}

\* C13 as stated: every column is assigned by one stage and once, only the
\* columns of the cash/revolver recurrence more than once, and a stage reads
\* only columns assigned by stages that ran before it.
C13_WrittenOnceReadFromEarlierStages ==
    /\ OneStagePerColumn(log)
    /\ \A c \in DOMAIN log.w : Len(log.w[c]) > 1 => c \in RecurrenceColumns
    /\ \A r \in log.r :
         /\ r.writers # {}
         /\ \A s \in r.writers : StageOrder[s] < StageOrder[r.stage]

\* C13, amended: every column of the ledger is assigned by one stage only;
\* a column is read only after it was assigned, by the stage that assigned
\* it or a later one; the columns assigned by more than one statement are
\* Month of Year, CapEx and Depreciation (initialised, then patched, within
\* their stage) and Interest, EBT, Taxes and Net Income (row m in iteration
\* m of the loop); the cash and revolver columns are assigned once, after
\* the loop.
C13_OneStagePerColumn ==
    /\ DOMAIN df.col = DOMAIN log.w
    /\ OneStagePerColumn(log)
    /\ \A r \in log.r :
         /\ r.writers # {}
         /\ \A s \in r.writers : StageOrder[s] <= StageOrder[r.stage]
    /\ \A c \in DOMAIN log.w :
         /\ Len(log.w[c]) > 1 => c \in PatchedColumns \cup LoopColumns
         /\ c \in PatchedColumns => Len(log.w[c]) <= 2
         /\ c \in LoopColumns =>
              \A i \in 1..Len(log.w[c]) : log.w[c][i].rows = {i}

\* A returned run of a year or more: Month of Year patched in row 12, CapEx
\* patched in its month, the loop columns filled month by month, EBIT read
\* by the stage that assigned it.
C13_Witness ==
    /\ pc = "returned"
    /\ months >= 12
    /\ Len(log.w["Month of Year"]) = 2
    /\ 12 \in log.w["Month of Year"][2].rows
    /\ Len(log.w["CapEx"]) = 2
    /\ Len(log.w["Ending Cash"]) = 1
    /\ Len(log.w["Interest"]) = months
    /\ [stage |-> "pnl", col |-> "EBIT", writers |-> {"pnl"}] \in log.r

SameOutcome(instance, recorded) ==
    /\ instance.pc = recorded.pc
    /\ instance.exc = recorded.exc
    /\ instance.df = recorded.df
    /\ instance.pc = "returned" => instance.results = recorded.results

\* the ledger of an instance holds the columns its own stages assigned
OwnLedger(instance) == DOMAIN instance.df.col = DOMAIN instance.log.w

\* C12: the constants and scenario records are never written, and each of
\* two instances built from one constants record, their steps interleaved
\* in any order, works on its own ledger and ends with the ledger, the
\* results or the exception it ends with when run alone.
C12_InstancesAreIsolated ==
    /\ const = alone.const
    /\ scenario = alone.given[3 - peer.id]
    /\ peer.self.scenario = alone.given[peer.id]
    /\ OwnLedger(Running)
    /\ OwnLedger(peer.self)
    /\ Len(alone.out) = 2 =>
         /\ pc \in Terminal => SameOutcome(Running, alone.out[3 - peer.id])
         /\ peer.self.pc \in Terminal => SameOutcome(peer.self, alone.out[peer.id])

\* The first instance has returned after the second, of another scenario,
\* ran into its loop in between: control went to the second and came back.
C12_Witness ==
    /\ Len(alone.out) = 2
    /\ peer.id = 2
    /\ pc = "returned"
    /\ peer.self.pc = "loop"
    /\ peer.self.m = 2
    /\ scenario # peer.self.scenario
    /\ results.pnl # Project(peer.self.df, DOMAIN results.pnl.col)

\* C14: a call of a function decorated with error_boundary returns
\* fallback_value when the wrapped function raises, the exception being
\* suppressed, and the function's own result when it does not raise.
C14_FallbackValueOnRaise ==
    \A i \in 1..Len(boundary.calls) :
      LET call == boundary.calls[i]
      IN  /\ call.raised => ~call.propagated /\ call.returned = boundary.fallback_value
          /\ ~call.raised => call.returned = call.result

C16_CacheHoldsAtMostMaxSize ==
    /\ Len(memo.cache) <= memo.max_size
    /\ \A e \in memo.trimmed :
         \A i \in 1..Len(memo.cache) : e.timestamp <= memo.cache[i].timestamp
    /\ \A i \in 1..Len(memo.calls) :
         memo.calls[i].cached =>
           /\ ~memo.calls[i].invoked
           /\ \E j \in 1..(i - 1) :
                /\ memo.calls[j].key = memo.calls[i].key
                /\ memo.calls[j].invoked
                /\ memo.calls[j].returned = memo.calls[i].returned

\* C21: Runway (Months) of month m comes from the average of Net Cash Flow
\* over the six months ending at m (months 1..m when m < 6): -Ending Cash /
\* average when the average is negative, the sentinel 999 otherwise.
C21_RunwayFromSixMonthAverage ==
    HasCol(df, "Runway (Months)") =>
      \A l \in 1..months :
        LET lo == IF l < RollingWindow THEN 1 ELSE l - RollingWindow + 1
            average == Div(SumOver(df.col["Net Cash Flow"], lo, l), I(l - lo + 1))
            runway == df.col["Runway (Months)"][l]
        IN  /\ Lt(average, Zero) =>
                 runway = Div(Neg(df.col["Ending Cash"][l]), average)
            /\ ~Lt(average, Zero) => runway = I(RunwaySentinel)

\* A ledger of more than six months: a finite runway in an early month, and
\* the sentinel in a month whose six-month window no longer holds the
\* outflow of month 1 while the average over all months is still negative.
C21_Witness ==
    /\ HasCol(df, "Runway (Months)")
    /\ months > RollingWindow
    /\ \E l \in 1..months :
         /\ Lt(SumOver(df.col["Net Cash Flow"], 1, l), Zero)
         /\ df.col["Runway (Months)"][l] # I(RunwaySentinel)
    /\ \E l \in (RollingWindow + 1)..months :
         /\ Lt(SumOver(df.col["Net Cash Flow"], 1, l), Zero)
         /\ df.col["Runway (Months)"][l] = I(RunwaySentinel)

\* C22: for every month index m in 1..N, Year is ceil(m / 12) and Month of
\* Year is m mod 12, with remainder 0 mapped to 12, hence in 1..12.
C22_YearAndMonthOfYear ==
    HasCol(df, "Month of Year") =>
      \A l \in 1..months :
        LET year == df.col["Year"][l]
            month_of_year == df.col["Month of Year"][l]
        IN  /\ 12 * (year - 1) < l /\ l <= 12 * year
            /\ month_of_year \in 1..12
            /\ month_of_year = l - 12 * (year - 1)
            /\ l % 12 = 0 => month_of_year = 12
            /\ l % 12 # 0 => month_of_year = l % 12

\* A schedule that runs into a third year.
C22_Witness ==
    /\ HasCol(df, "Month of Year")
    /\ months >= 25
    /\ df.col["Year"][12] = 1 /\ df.col["Month of Year"][12] = 12
    /\ df.col["Year"][13] = 2 /\ df.col["Month of Year"][13] = 1
    /\ df.col["Year"][25] = 3 /\ df.col["Month of Year"][24] = 12

\* C23: every month, the price of a channel is its base price x
\* (1 + escalator)^(Year - 1), the revenue of a channel is Monthly Volume x
\* mix % x price, and Revenue is the sum of the three channel revenues, the
\* mix taken as given (not rescaled to sum to 1).
C23_ChannelPricesAndRevenue ==
    HasCol(df, "Revenue") =>
      \A l \in 1..months :
        LET escalation == Pow(Add(One, scenario.pricing.annual_price_increase_pct),
                              df.col["Year"][l] - 1)
            volume == df.col["Monthly Volume"][l]
            tasting == Mul(scenario.pricing.tasting_room_per_bottle, escalation)
            club == Mul(scenario.pricing.club_per_bottle, escalation)
            wholesale == Mul(scenario.pricing.wholesale_fob_per_bottle, escalation)
            mix == scenario.channel_mix
        IN  /\ df.col["tasting_room_price"][l] = tasting
            /\ df.col["club_price"][l] = club
            /\ df.col["wholesale_fob_price"][l] = wholesale
            /\ df.col["tasting_room_revenue"][l] = Mul(Mul(volume, mix.tasting_room_pct), tasting)
            /\ df.col["club_revenue"][l] = Mul(Mul(volume, mix.club_pct), club)
            /\ df.col["wholesale_revenue"][l] = Mul(Mul(volume, mix.wholesale_pct), wholesale)
            /\ df.col["Revenue"][l] =
                 Mul(volume, Add(Add(Mul(mix.tasting_room_pct, tasting),
                                     Mul(mix.club_pct, club)),
                                 Mul(mix.wholesale_pct, wholesale)))

\* Three channels with sales, an escalator, a third year, and a mix that
\* sums to 3/2.
C23_Witness ==
    /\ HasCol(df, "Revenue")
    /\ months >= 25
    /\ Gt(scenario.pricing.annual_price_increase_pct, Zero)
    /\ Add(Add(scenario.channel_mix.tasting_room_pct, scenario.channel_mix.club_pct),
           scenario.channel_mix.wholesale_pct) = Q(3, 2)
    /\ Gt(df.col["club_revenue"][1], Zero)
    /\ Gt(df.col["wholesale_revenue"][1], Zero)
    /\ Gt(df.col["tasting_room_price"][13], df.col["tasting_room_price"][12])
    /\ Gt(df.col["Revenue"][25], df.col["Revenue"][13])

\* the payroll of month l: salary / 12 of the positions started by then
StartedPayroll(plan, l) ==
    SumOver([i \in 1..Len(plan) |->
               IF plan[i][3] <= l THEN Div(plan[i][2], I(12)) ELSE Zero],
            1, Len(plan))

\* C24: every month, OpEx = -(payroll x (1 + benefits) x (1 + payroll
\* growth)^(Year-1) + rent + utilities + marketing + G&A): payroll sums
\* salary/12 over the positions whose start month is <= m, rent and
\* utilities are the year-1 figure / 12 escalated by their own
\* rate^(Year-1), marketing and G&A are their percentages of the month's
\* Revenue; in year 1 no growth is applied.
C24_OpExComponents ==
    HasCol(df, "OpEx") =>
      \A l \in 1..months :
        LET years == df.col["Year"][l] - 1
            payroll == Mul(Mul(StartedPayroll(const.headcount_plan, l),
                               Add(One, const.opex.payroll_benefits_tax_pct)),
                           Pow(Add(One, const.opex.payroll_annual_growth_pct), years))
            rent == Mul(Div(const.opex.rent_y1, I(12)),
                        Pow(Add(One, const.opex.rent_annual_escalator_pct), years))
            utilities == Mul(Div(const.opex.utilities_insurance_y1, I(12)),
                             Pow(Add(One, const.opex.utilities_insurance_growth_pct), years))
            marketing == Mul(df.col["Revenue"][l], scenario.opex.marketing_pct_of_revenue)
            g_and_a == Mul(df.col["Revenue"][l], scenario.opex.g_and_a_pct_of_revenue)
        IN  /\ df.col["OpEx"][l] =
                 Neg(Add(Add(Add(Add(payroll, rent), utilities), marketing), g_and_a))
            /\ years = 0 =>
                 df.col["OpEx"][l] =
                   Neg(Add(Add(Add(Add(Mul(StartedPayroll(const.headcount_plan, l),
                                           Add(One, const.opex.payroll_benefits_tax_pct)),
                                       Div(const.opex.rent_y1, I(12))),
                                   Div(const.opex.utilities_insurance_y1, I(12))),
                               marketing),
                           g_and_a))

\* Positions starting in month 1, in month 3 and after the horizon, every
\* component of OpEx present, three years.
C24_Witness ==
    /\ HasCol(df, "OpEx")
    /\ months >= 25
    /\ Len(const.headcount_plan) >= 3
    /\ Lt(df.col["Payroll"][3], df.col["Payroll"][2])
    /\ Lt(df.col["Payroll"][2], Zero)
    /\ StartedPayroll(const.headcount_plan, months)
         # StartedPayroll(const.headcount_plan, 10 * months)
    /\ Lt(df.col["Rent"][25], df.col["Rent"][13])
    /\ Lt(df.col["Utilities & Insurance"][13], df.col["Utilities & Insurance"][12])
    /\ Lt(df.col["Marketing"][1], Zero)
    /\ Lt(df.col["G&A"][1], Zero)

\* The sum of a column over the rows lo..hi of the index, halving the range.
RECURSIVE LedgerSum(_, _, _, _)
LedgerSum(column, index, lo, hi) ==
    IF lo > hi THEN Zero
    ELSE IF lo = hi THEN column[index[lo]]
    ELSE LET mid == (lo + hi) \div 2
             left == LedgerSum(column, index, lo, mid)
             right == LedgerSum(column, index, mid + 1, hi)
         IN  Add(left, right)

\* C25: the CapEx column holds -(initial_spend_base x (1 + overrun %)) in
\* the configured spend month and 0 in every other row, so the sum of the
\* column is that one entry.
C25_SingleCapExEntry ==
    HasCol(df, "CapEx") =>
      LET entry == Neg(Mul(const.capex.initial_spend_base,
                           Add(One, scenario.capex.initial_spend_overrun_pct)))
          capex == df.col["CapEx"]
      IN  /\ capex[const.capex.initial_spend_month] = entry
          /\ \A l \in Labels(df) \ {const.capex.initial_spend_month} : capex[l] = Zero
          /\ LedgerSum(capex, df.index, 1, Len(df.index)) = entry

\* A spend with an overrun in a month inside a horizon of several months.
C25_Witness ==
    /\ HasCol(df, "CapEx")
    /\ Gt(scenario.capex.initial_spend_overrun_pct, Zero)
    /\ Gt(const.capex.initial_spend_base, Zero)
    /\ const.capex.initial_spend_month \in 2..(months - 1)
    /\ Lt(df.col["CapEx"][const.capex.initial_spend_month],
          Neg(const.capex.initial_spend_base))

\* C26: whenever Ending Cash of a month is negative, the Revolver Balance of
\* that month equals revolver_limit: negative cash is never reported while
\* revolver headroom remains.
C26_NegativeCashMeansFullyDrawn ==
    /\ \A k \in Completed :
         Lt(cash[k], Zero) => revolver[k] = const.financing.revolver_limit
    /\ HasCol(df, "Revolver Balance") =>
         \A l \in 1..months :
           Lt(df.col["Ending Cash"][l], Zero) =>
             df.col["Revolver Balance"][l] = const.financing.revolver_limit

\* A stored ledger with a month that ended with negative cash at a positive
\* limit, after a month whose shortfall the remaining headroom covered.
C26_Witness ==
    /\ HasCol(df, "Revolver Balance")
    /\ Gt(const.financing.revolver_limit, Zero)
    /\ \E l \in 1..months :
         /\ Lt(df.col["Ending Cash"][l], Zero)
         /\ df.col["Revolver Balance"][l] = const.financing.revolver_limit
    /\ \E l \in 1..months :
         /\ df.col["Ending Cash"][l] = Zero
         /\ Gt(df.col["Revolver Draw/(Repay)"][l], Zero)
         /\ Lt(df.col["Revolver Balance"][l], const.financing.revolver_limit)

\* C27: whenever Ending Cash of a month is strictly positive, the Revolver
\* Balance of that month is 0: positive cash is never held while revolver
\* debt is outstanding.
C27_PositiveCashMeansNoDebt ==
    /\ \A k \in Completed : Gt(cash[k], Zero) => revolver[k] = Zero
    /\ HasCol(df, "Revolver Balance") =>
         \A l \in 1..months :
           Gt(df.col["Ending Cash"][l], Zero) => df.col["Revolver Balance"][l] = Zero

\* A stored ledger with a month that repaid an outstanding balance in full
\* and kept cash, and a month that kept a balance and ended without cash.
C27_Witness ==
    /\ HasCol(df, "Revolver Balance")
    /\ \E l \in 2..months :
         /\ Gt(df.col["Revolver Balance"][l - 1], Zero)
         /\ Lt(df.col["Revolver Draw/(Repay)"][l], Zero)
         /\ Gt(df.col["Ending Cash"][l], Zero)
         /\ df.col["Revolver Balance"][l] = Zero
    /\ \E l \in 1..months :
         /\ Gt(df.col["Revolver Balance"][l], Zero)
         /\ Le(df.col["Ending Cash"][l], Zero)

\* C28: for every month, Net Cash Flow = FCF + CFF = CFO + CFI + Revolver
\* Draw/(Repay) equals Ending Cash - Beginning Cash, and the Revolver Balance
\* of month m is the sum of Revolver Draw/(Repay) over the months 1..m.
C28_NetCashFlowReconciles ==
    HasCol(df, "Net Cash Flow") =>
      \A l \in 1..months :
        LET draw == df.col["Revolver Draw/(Repay)"][l]
            net == df.col["Net Cash Flow"][l]
        IN  /\ net = Add(df.col["FCF"][l], df.col["CFF"][l])
            /\ net = Add(Add(df.col["CFO"][l], df.col["CFI"][l]), draw)
            /\ net = Sub(df.col["Ending Cash"][l], df.col["Beginning Cash"][l])
            /\ df.col["Revolver Balance"][l] =
                 LedgerSum(df.col["Revolver Draw/(Repay)"], df.index, 1, l)

\* A stored ledger with a draw, a later partial repayment, and a month whose
\* cash moved with the revolver untouched.
C28_Witness ==
    /\ HasCol(df, "Net Cash Flow")
    /\ \E l \in 1..months : \E k \in (l + 1)..months :
         /\ Gt(df.col["Revolver Draw/(Repay)"][l], Zero)
         /\ Lt(df.col["Revolver Draw/(Repay)"][k], Zero)
         /\ Gt(df.col["Revolver Balance"][k], Zero)
    /\ \E l \in 1..months :
         /\ df.col["Revolver Draw/(Repay)"][l] = Zero
         /\ ~IsZero(df.col["Net Cash Flow"][l])
         /\ df.col["Ending Cash"][l] # df.col["Beginning Cash"][l]

\* C29: the cash month 1 starts from (Beginning Cash of month 1) is
\* initial_cash_position + safe_round_investment and the opening revolver
\* balance is 0; the SAFE proceeds are in cash before the first month and
\* are no financing cash flow of any month: CFF is the revolver draw/repay.
C29_SafeProceedsInOpeningCash ==
    LET opening == Add(const.financing.initial_cash_position,
                       const.financing.safe_round_investment)
    IN  /\ m >= 1 => cash[0] = opening /\ revolver[0] = Zero
        /\ 1 \in Completed =>
             /\ cbf[1] = Add(opening, Add(Sub(df.col["Net Income"][1],
                                              df.col["Depreciation"][1]),
                                          df.col["CapEx"][1]))
             /\ revolver[1] = revolver_draw_repay[0]
        /\ HasCol(df, "CFF") =>
             /\ df.col["Beginning Cash"][1] = opening
             /\ df.col["Revolver Balance"][1] = df.col["Revolver Draw/(Repay)"][1]
             /\ \A l \in 1..months :
                  df.col["CFF"][l] = df.col["Revolver Draw/(Repay)"][l]

\* A stored ledger opened with SAFE proceeds, whose first month has no
\* financing cash flow and a later month draws on the revolver.
C29_Witness ==
    /\ HasCol(df, "CFF")
    /\ Gt(const.financing.safe_round_investment, Zero)
    /\ Gt(df.col["Beginning Cash"][1], const.financing.initial_cash_position)
    /\ df.col["CFF"][1] = Zero
    /\ \E l \in 2..months : Gt(df.col["CFF"][l], Zero)

\* C30: for any configured initial_spend_month, including a value outside
\* 1..N, run_model completes and the ledger has exactly the N rows indexed
\* 1..N: assigning the CapEx entry never adds a row to the ledger and never
\* makes the cash columns stored after the loop mismatch its length.
C30_LedgerKeepsHorizonRows ==
    /\ pc # "new" => df.index = [i \in 1..months |-> i]
    /\ exc # "ValueError"
    /\ pc = "returned" => results.cash_flow.index = [i \in 1..months |-> i]

====
